---- MODULE Spec2Model ----
(***************************************************************************)
(* Pyphen (src/pyphen/__init__.py): the dictionary parser of               *)
(* HyphDict.__init__, the position finder HyphDict.positions with its word *)
(* cache, the table cache hdcache, and the four queries of Pyphen          *)
(* (positions, iterate, wrap, inserted).                                   *)
(*                                                                         *)
(* A string is a sequence of one-character strings.  An int that may carry *)
(* data (DataInt) is a record [n, data]; a plain int carries data = None.  *)
(***************************************************************************)
EXTENDS Integers, Sequences, FiniteSets, TLC

VARIABLES
    file,       \* the lines of the dictionary file after its charset line
    patterns,   \* HyphDict.__init__: self.patterns while the file is read
    pattern,    \* HyphDict.__init__: the loop variable, the line just read
    lineno,     \* HyphDict.__init__: how many lines of the stream are consumed
    heap,       \* the HyphDict objects built so far: [patterns, maxlen, cache]
    hdcache,    \* the module's hdcache for the file's name: 0 (absent) or a heap index
    pyphens,    \* the Pyphen objects built so far: [left, right, hd]
    ret,        \* the last call of the sequential client and what it returned
    first,      \* <<pyphen, word>> -> what the first positions(word) call returned
    ncalls,     \* number of queries made by the sequential client
    threads     \* the concurrent clients: each one's program counter and locals

vars == <<file, patterns, pattern, lineno, heap, hdcache, pyphens, ret, first,
          ncalls, threads>>

(***************************************************************************)
(* Bounds of the model.                                                    *)
(***************************************************************************)
MaxPatLen == 3      \* longest pattern text enumerated for the parser
MaxLines == 2       \* lines read by the parser run
MaxWordLen == 3     \* longest word queried
MaxMargin == 2      \* left and right range over 0..MaxMargin
MaxWidth == 3       \* wrap's width ranges over 0..MaxWidth
MaxCalls == 1       \* queries of the sequential client
MaxPyphen == 1      \* Pyphen objects of the sequential client
MaxCacheCalls == 3  \* positions calls of the client that repeats its calls
MaxCachePyphen == 2 \* Pyphen objects of that client
MaxCacheMargin == 1 \* the greatest left and right of those objects
MaxThreads == 2     \* threads of the concurrent client
MaxThreadOps == 4   \* constructions and calls the threads start, in all

(***************************************************************************)
(* Characters and Python's string primitives.                              *)
(***************************************************************************)
None == <<>>

Digits == {"0", "1", "2", "3", "4", "5", "6", "7", "8", "9"}

DigitVal(c) ==
    CASE c = "0" -> 0 [] c = "1" -> 1 [] c = "2" -> 2 [] c = "3" -> 3
      [] c = "4" -> 4 [] c = "5" -> 5 [] c = "6" -> 6 [] c = "7" -> 7
      [] c = "8" -> 8 [] c = "9" -> 9

\* str.lower / str.upper on one character (the cased letters of the model)
LowerChar(c) == CASE c = "A" -> "a" [] c = "B" -> "b" [] OTHER -> c
UpperChar(c) == CASE c = "a" -> "A" [] c = "b" -> "B" [] OTHER -> c

RECURSIVE lower(_)
lower(s) == IF s = <<>> THEN <<>> ELSE <<LowerChar(Head(s))>> \o lower(Tail(s))

RECURSIVE upper(_)
upper(s) == IF s = <<>> THEN <<>> ELSE <<UpperChar(Head(s))>> \o upper(Tail(s))

\* str.isupper: at least one cased character and no lowercase one
isupper(s) ==
    /\ \E k \in 1..Len(s) : LowerChar(s[k]) # UpperChar(s[k])
    /\ \A k \in 1..Len(s) : UpperChar(s[k]) = s[k]

Min(a, b) == IF a < b THEN a ELSE b
Max(a, b) == IF a > b THEN a ELSE b

\* the index Python's slicing turns a bound k into, for a sequence of length n
Clamp(k, n) == IF k < 0 THEN Max(n + k, 0) ELSE Min(k, n)

\* s[lo:hi] with Python's 0-based, clamped, possibly negative bounds
Slice(s, lo, hi) ==
    LET a == Clamp(lo, Len(s))
        b == Clamp(hi, Len(s))
    IN  IF b <= a THEN <<>> ELSE SubSeq(s, a + 1, b)

SliceTo(s, hi) == Slice(s, 0, hi)          \* s[:hi]
SliceFrom(s, lo) == Slice(s, lo, Len(s))   \* s[lo:]

startswith(s, p) == Len(p) <= Len(s) /\ SubSeq(s, 1, Len(p)) = p

Contains(s, c) == \E k \in 1..Len(s) : s[k] = c

\* index of the first c in s (s contains c)
Find(s, c) == CHOOSE k \in 1..Len(s) : s[k] = c /\ \A j \in 1..(k - 1) : s[j] # c

\* str.split(c): the pieces between the occurrences of c
RECURSIVE split(_, _)
split(s, c) ==
    IF ~Contains(s, c) THEN <<s>>
    ELSE <<SubSeq(s, 1, Find(s, c) - 1)>> \o split(SubSeq(s, Find(s, c) + 1, Len(s)), c)

\* str.strip() for the blank of the model
RECURSIVE lstrip(_)
lstrip(s) == IF s # <<>> /\ Head(s) = " " THEN lstrip(Tail(s)) ELSE s

RECURSIVE rstrip(_)
rstrip(s) ==
    IF s # <<>> /\ s[Len(s)] = " " THEN rstrip(SubSeq(s, 1, Len(s) - 1)) ELSE s

strip(s) == rstrip(lstrip(s))

\* int() of a decimal string with an optional sign
RECURSIVE IntOfDigits(_, _)
IntOfDigits(s, acc) ==
    IF s = <<>> THEN acc ELSE IntOfDigits(Tail(s), 10 * acc + DigitVal(Head(s)))

int(s) == IF s # <<>> /\ Head(s) = "-" THEN 0 - IntOfDigits(Tail(s), 0)
          ELSE IntOfDigits(s, 0)

(***************************************************************************)
(* The dictionary parser: HyphDict.__init__.                               *)
(***************************************************************************)
\* DataInt(value, data): an int with a data attribute; a plain int has None
DataInt(value, data) == [n |-> value, data |-> data]

HexDigits == Digits \cup {"a", "b", "c", "d", "e", "f"}

HexVal(c) ==
    CASE c \in Digits -> DigitVal(c)
      [] c = "a" -> 10 [] c = "b" -> 11 [] c = "c" -> 12
      [] c = "d" -> 13 [] c = "e" -> 14 [] c = "f" -> 15

\* chr(code) for the characters of the model; "?" is any other character
chr(code) ==
    CASE code = 97 -> "a" [] code = 98 -> "b" [] code = 46 -> "."
      [] code = 45 -> "-" [] code = 49 -> "1" [] code = 50 -> "2"
      [] OTHER -> "?"

\* parse_hex(lambda match: chr(int(match.group(1), 16)), s): every ^^hh of s,
\* left to right, replaced by the character with that code
RECURSIVE parse_hex(_)
parse_hex(s) ==
    IF s = <<>> THEN <<>>
    ELSE IF /\ Len(s) >= 4
            /\ s[1] = "^" /\ s[2] = "^"
            /\ s[3] \in HexDigits /\ s[4] \in HexDigits
         THEN <<chr(16 * HexVal(s[3]) + HexVal(s[4]))>> \o parse_hex(SubSeq(s, 5, Len(s)))
         ELSE <<Head(s)>> \o parse_hex(Tail(s))

\* parse = re.compile(r'(\d?)(\D?)').findall: the pairs (digit or '', character
\* or ''), the last one being the empty match at the end of the text
RECURSIVE parse(_)
parse(s) ==
    IF s = <<>> THEN << <<"", "">> >>
    ELSE LET d == IF Head(s) \in Digits THEN Head(s) ELSE ""
             r == IF d # "" THEN Tail(s) ELSE s
             c == IF r # <<>> /\ Head(r) \notin Digits THEN Head(r) ELSE ""
         IN  << <<d, c>> >> \o parse(IF c # "" THEN Tail(r) ELSE r)

\* the lines the loop skips: comments and the margin directives
Skipped ==
    { <<"%">>, <<"#">>,
      <<"L","E","F","T","H","Y","P","H","E","N","M","I","N">>,
      <<"R","I","G","H","T","H","Y","P","H","E","N","M","I","N">>,
      <<"C","O","M","P","O","U","N","D","L","E","F","T","H","Y","P","H","E","N","M","I","N">>,
      <<"C","O","M","P","O","U","N","D","R","I","G","H","T","H","Y","P","H","E","N","M","I","N">> }

\* AlternativeParser.__init__(pattern, alternative)
AlternativeParser(pat, alternative) ==
    LET _alternative == split(alternative, ",")
    IN  [change |-> _alternative[1],
         index  |-> int(_alternative[2]) + (IF startswith(pat, <<".">>) THEN 1 ELSE 0),
         cut    |-> int(_alternative[3])]

\* AlternativeParser.__call__(value): the parser after the call and what it returns
AlternativeParser_call(self, value) ==
    LET index == self.index - 1
        _value == DigitVal(value)
    IN  [self   |-> [self EXCEPT !.index = index],
         result |-> IF _value % 2 = 1
                    THEN DataInt(_value, <<self.change, index, self.cut>>)
                    ELSE DataInt(_value, None)]

\* [factory(i or '0') for i, string in parse(pattern)] with factory = int
RECURSIVE IntValues(_)
IntValues(pairs) ==
    IF pairs = <<>> THEN <<>>
    ELSE LET i == Head(pairs)[1]
         IN  <<DataInt(DigitVal(IF i = "" THEN "0" ELSE i), None)>> \o IntValues(Tail(pairs))

\* the same with factory = an AlternativeParser, whose index each call lowers
RECURSIVE AlternativeValues(_, _)
AlternativeValues(pairs, factory) ==
    IF pairs = <<>> THEN <<>>
    ELSE LET i == Head(pairs)[1]
             called == AlternativeParser_call(factory, IF i = "" THEN "0" ELSE i)
         IN  <<called.result>> \o AlternativeValues(Tail(pairs), called.self)

\* ''.join(tags)
RECURSIVE JoinTags(_)
JoinTags(pairs) ==
    IF pairs = <<>> THEN <<>>
    ELSE (IF Head(pairs)[2] = "" THEN <<>> ELSE <<Head(pairs)[2]>>) \o JoinTags(Tail(pairs))

\* the text of a line as the loop sees it: stripped, ^^hh replaced
Decoded(line) == parse_hex(strip(line))

IsSkipped(line) ==
    \/ strip(line) = <<>>
    \/ \E p \in Skipped : startswith(strip(line), p)

HasAlternative(text) == Contains(text, "/") /\ Contains(text, "=")

\* the pattern text of a line: what is left of the first "/" of an alternative
PatternText(line) ==
    LET text == Decoded(line)
    IN  IF HasAlternative(text) THEN SubSeq(text, 1, Find(text, "/") - 1) ELSE text

\* values of the line, one for each pair of parse(pattern)
Values(line) ==
    LET text == Decoded(line)
        pat == PatternText(line)
    IN  IF HasAlternative(text)
        THEN AlternativeValues(parse(pat),
                 AlternativeParser(pat, SubSeq(text, Find(text, "/") + 1, Len(text))))
        ELSE IntValues(parse(pat))

Key(line) == JoinTags(parse(PatternText(line)))

AllZero(values) == \A k \in 1..Len(values) : values[k].n = 0

\* a parser that stores the values without chopping the leading zeros
Start_Unchopped(values) == 0

\* the loops "while not values[start]: start += 1" and
\* "while not values[end - 1]: end -= 1" (values holds a non-zero)
Start(values) == (CHOOSE k \in 1..Len(values) :
                    values[k].n # 0 /\ \A j \in 1..(k - 1) : values[j].n = 0) - 1

End(values) == CHOOSE k \in 1..Len(values) :
                    values[k].n # 0 /\ \A j \in (k + 1)..Len(values) : values[j].n = 0

\* self.patterns[key] = start, values[start:end]
Store(pats, key, entry) == (key :> entry) @@ pats

\* one turn of "for pattern in stream": self.patterns after the line
ReadPattern(pats, line) ==
    IF IsSkipped(line) THEN pats
    ELSE LET values == Values(line)
         IN  IF AllZero(values) THEN pats
             ELSE Store(pats, Key(line),
                        <<Start(values), SubSeq(values, Start(values) + 1, End(values))>>)

RECURSIVE ReadStream(_, _)
ReadStream(pats, stream) ==
    IF stream = <<>> THEN pats ELSE ReadStream(ReadPattern(pats, Head(stream)), Tail(stream))

NoPatterns == <<>>

MaxOf(S) == CHOOSE m \in S : \A x \in S : x <= m

\* HyphDict(filename): the object built from the lines of the file; max() of
\* no key raises ValueError, and then there is no object
HyphDict(stream) ==
    LET pats == ReadStream(NoPatterns, stream)
    IN  IF DOMAIN pats = {} THEN [raised |-> TRUE]
        ELSE [raised   |-> FALSE,
              patterns |-> pats,
              maxlen   |-> MaxOf({Len(key) : key \in DOMAIN pats}),
              cache    |-> NoPatterns]

(***************************************************************************)
(* The position finder: HyphDict.positions.                                *)
(***************************************************************************)
\* an overlay that overwrites instead of keeping the greater weight
max_Overwrite(a, b) == a

\* Python's max(a, b) of map(max, values, references[slice_]): the first
\* argument unless the second is greater
max(a, b) == IF b.n > a.n THEN b ELSE a

\* references[slice_] = map(max, values, references[slice_]) with
\* slice_ = slice(at, at + len(values)); indices are 0-based, the slice stops
\* at the end of references
Overlay(references, at, values) ==
    [m \in 1..Len(references) |->
        IF at <= m - 1 /\ m - 1 < at + Len(values)
        THEN max(values[m - at], references[m])
        ELSE references[m]]

\* the body of the inner loop for one i and j
Lookup(hd, pointed_word, references, i, j) ==
    LET key == SubSeq(pointed_word, i + 1, j)
    IN  IF key \in DOMAIN hd.patterns
        THEN Overlay(references, i + hd.patterns[key][1], hd.patterns[key][2])
        ELSE references

\* for j in range(j, min(i + self.maxlen, len(pointed_word)) + 1)
RECURSIVE InnerLoop(_, _, _, _, _)
InnerLoop(hd, pointed_word, references, i, j) ==
    IF j > Min(i + hd.maxlen, Len(pointed_word)) THEN references
    ELSE InnerLoop(hd, pointed_word, Lookup(hd, pointed_word, references, i, j), i, j + 1)

\* the last start index of the outer loop: range(len(pointed_word) - 1)
LastStart(pointed_word) == Len(pointed_word) - 2

\* for i in range(i, len(pointed_word) - 1)
RECURSIVE OuterLoop(_, _, _, _)
OuterLoop(hd, pointed_word, references, i) ==
    IF i > LastStart(pointed_word) THEN references
    ELSE OuterLoop(hd, pointed_word,
                   InnerLoop(hd, pointed_word, references, i, i + 1), i + 1)

PointedWord(word) == <<".">> \o word \o <<".">>

\* references after the two loops, for a word already lowercased
References(hd, word) ==
    LET pointed_word == PointedWord(word)
    IN  OuterLoop(hd, pointed_word,
                  [m \in 1..(Len(pointed_word) + 1) |-> DataInt(0, None)], 0)

\* [DataInt(i - 1, reference=reference)
\*  for i, reference in enumerate(references) if reference % 2], from index m on
RECURSIVE Points(_, _)
Points(references, m) ==
    IF m > Len(references) THEN <<>>
    ELSE (IF references[m].n % 2 = 1
          THEN <<DataInt((m - 1) - 1, references[m].data)>>
          ELSE <<>>) \o Points(references, m + 1)

\* the word looked up as it was given
CacheKey_AsGiven(word) == word

\* the key of self.cache for a word
CacheKey(word) == lower(word)

\* what is computed when the cache has no entry
Compute(hd, word) == Points(References(hd, word), 1)

\* a store that starts the cache afresh
cache_setitem_Afresh(cache, word, points) == word :> points

\* self.cache[word] = points
cache_setitem(cache, word, points) == Store(cache, word, points)

\* HyphDict.positions(word): the points returned and the object afterwards
HyphDict_positions(hd, word) ==
    LET w == CacheKey(word)
    IN  IF w \in DOMAIN hd.cache
        THEN [points |-> hd.cache[w], hd |-> hd]
        ELSE LET points == Compute(hd, w)
             IN  [points |-> points,
                  hd     |-> [hd EXCEPT !.cache = cache_setitem(hd.cache, w, points)]]

(***************************************************************************)
(* The queries of Pyphen.                                                  *)
(***************************************************************************)
\* a filter that forgets the right margin
InMargins_LeftOnly(self, word, i) == self.left <= i.n

\* the condition of the list comprehension of Pyphen.positions
InMargins(self, word, i) == self.left <= i.n /\ i.n <= Len(word) - self.right

\* Pyphen.positions(word), given what self.hd.positions(word) returned
Pyphen_positions(self, points, word) ==
    SelectSeq(points, LAMBDA i : InMargins(self, word, i))

\* the positions taken from left to right
reversed_Forward(s) == s

RECURSIVE reversed(_)
reversed(s) == IF s = <<>> THEN <<>> ELSE reversed(Tail(s)) \o <<Head(s)>>

\* the pair iterate yields for one position
Pair(word, position) ==
    IF position.data # None
    THEN LET change == IF isupper(word) THEN upper(position.data[1]) ELSE position.data[1]
             index == position.data[2] + position.n
             cut == position.data[3]
             c == split(change, "=")
         IN  <<SliceTo(word, index) \o c[1], c[2] \o SliceFrom(word, index + cut)>>
    ELSE <<SliceTo(word, position.n), SliceFrom(word, position.n)>>

\* the pairs yielded for the positions rev, in their order
RECURSIVE Pairs(_, _)
Pairs(word, rev) ==
    IF rev = <<>> THEN <<>> ELSE <<Pair(word, Head(rev))>> \o Pairs(word, Tail(rev))

\* Pyphen.iterate(word): the pairs in the order they are yielded
iterate(self, points, word) ==
    Pairs(word, reversed(Pyphen_positions(self, points, word)))

\* Pyphen.wrap(word, width, hyphen): the first pair that fits, or None
wrap(self, points, word, width, hyphen) ==
    LET pairs == iterate(self, points, word)
        w == width - Len(hyphen)
        fits == {k \in 1..Len(pairs) : Len(pairs[k][1]) <= w}
    IN  IF fits = {} THEN None
        ELSE LET k == CHOOSE k \in fits : \A j \in fits : k <= j
             IN  <<pairs[k][1] \o hyphen, pairs[k][2]>>

\* change.replace('=', hyphen)
RECURSIVE replace(_, _)
replace(change, hyphen) ==
    IF change = <<>> THEN <<>>
    ELSE (IF Head(change) = "=" THEN hyphen ELSE <<Head(change)>>) \o replace(Tail(change), hyphen)

\* list(s): one element, a string of one character, for each character
RECURSIVE list(_)
list(s) == IF s = <<>> THEN <<>> ELSE << <<Head(s)>> >> \o list(Tail(s))

\* word_list[lo:hi] = elements
SliceAssign(word_list, lo, hi, elements) ==
    LET a == Clamp(lo, Len(word_list))
        b == Max(Clamp(hi, Len(word_list)), a)
    IN  SubSeq(word_list, 1, a) \o elements \o SubSeq(word_list, b + 1, Len(word_list))

\* word_list.insert(at, element)
Insert(word_list, at, element) ==
    LET a == Clamp(at, Len(word_list))
    IN  SubSeq(word_list, 1, a) \o <<element>> \o SubSeq(word_list, a + 1, Len(word_list))

\* the body of the loop of inserted, for one position
Edit(word, word_list, position, hyphen) ==
    IF position.data # None
    THEN LET change == IF isupper(word) THEN upper(position.data[1]) ELSE position.data[1]
             index == position.data[2] + position.n
             cut == position.data[3]
         IN  SliceAssign(word_list, index, index + cut, list(replace(change, hyphen)))
    ELSE Insert(word_list, position.n, hyphen)

\* word_list after the positions rev[k..] are processed
RECURSIVE EditAll(_, _, _, _, _)
EditAll(word, word_list, rev, k, hyphen) ==
    IF k > Len(rev) THEN word_list
    ELSE EditAll(word, Edit(word, word_list, rev[k], hyphen), rev, k + 1, hyphen)

\* ''.join(word_list)
RECURSIVE join(_)
join(word_list) == IF word_list = <<>> THEN <<>> ELSE Head(word_list) \o join(Tail(word_list))

\* Pyphen.inserted(word, hyphen)
inserted(self, points, word, hyphen) ==
    join(EditAll(word, list(word), reversed(Pyphen_positions(self, points, word)), 1, hyphen))

(***************************************************************************)
(* The inputs of the model.                                                *)
(***************************************************************************)
\* the dictionary files, each the sequence of its lines
Dictionaries ==
    {
      \* the patterns overlap: a2b. forbids at the end of a word what a1b allows
      <<<<"a","1","b">>,
        <<"a","2","b",".">>,
        <<"b","1","a">>>>,
      \* weights at the boundary dots, and the key that is the dot alone
      <<<<"1",".","a">>,
        <<"b",".","1">>,
        <<".","1">>,
        <<"a","1","a">>>>,
      \* a nonstandard change (as ck -> k-k in German), and a plain break
      <<<<"a","1","b","/","b","=","b",",","1",",","2">>,
        <<"b","1","a">>>>,
      \* the same gap from a tagged and a plain weight 1, the plain one applied last
      <<<<"a","1","b","/","b","=","b",",","1",",","2">>,
        <<"1","b">>>>,
      \* the same gap from a plain and a tagged weight 1, the tagged one applied last
      <<<<"a","1">>,
        <<"a","1","b","/","b","=","b",",","1",",","2">>>>,
      \* a change that drops a letter (as aa1tje./=,2,1 in Dutch)
      <<<<"a","1","b","/","=",",","1",",","1">>,
        <<"a","1","a">>>>,
      \* a change that starts two letters before its break
      <<<<"a","a","1","b","/","=",",","1",",","2">>,
        <<"a","1","a">>>>,
      \* a comment, blanks, an escape, a repeated key, a line of zeros, a key with a hyphen
      <<<<"%"," ","a","1","b">>,
        <<" ","a","3","b"," ">>,
        <<"^","^","6","1","1","a">>,
        <<"a","0","b">>,
        <<"a","1","b">>,
        <<"-","1","a">>>>,
      \* no pattern at all: the constructor raises
      <<<<"#">>,
        <<"a","0","b">>,
        <<"L","E","F","T","H","Y","P","H","E","N","M","I","N"," ","2">>>>
    }

\* the characters of the words: two letters, an uppercase one, a hyphen
Alphabet == {"a", "b", "A", "-"}

StringsOver(chars, maxlen) == UNION {[1..n -> chars] : n \in 0..maxlen}

Words == StringsOver(Alphabet, MaxWordLen)
Margins == 0..MaxMargin
Widths == 0..MaxWidth
Hyphens == {<<"-">>, <<"-", "-">>}

\* the lines of the parser run: every text over these characters, alone or
\* with an alternative, and lines that are skipped or escaped
PatChars == {"a", "b", ".", "0", "1", "2"}

Alternatives == {<<>>, <<"/", "a", "=", "b", ",", "1", ",", "2">>}

ParserLines ==
    {t \o a : t \in StringsOver(PatChars, MaxPatLen), a \in Alternatives}
    \cup {<<"%", "a", "1", "b">>, <<" ", "a", "1", " ">>, <<"^", "^", "6", "1", "1", "b">>,
          <<"^", "^", "3", "1", "a">>}

NoCall == [op |-> "none", self |-> 0, word |-> <<>>, width |-> 0, hyphen |-> <<>>,
           points |-> <<>>, positions |-> <<>>, returned |-> None]

NoFirst == <<>>

Idle == <<>>

(***************************************************************************)
(* The parser run: the loop of HyphDict.__init__, one line at a time.      *)
(***************************************************************************)
InitParse ==
    /\ file = <<>>
    /\ patterns = NoPatterns
    /\ pattern = <<>>
    /\ lineno = 0
    /\ heap = <<>>
    /\ hdcache = 0
    /\ pyphens = <<>>
    /\ ret = NoCall
    /\ first = NoFirst
    /\ ncalls = 0
    /\ threads = Idle

\* the stream yields its next line, and the body of the loop runs on it
ReadLine(line) ==
    /\ lineno < MaxLines
    /\ file' = Append(file, line)
    /\ pattern' = line
    /\ lineno' = lineno + 1
    /\ patterns' = ReadPattern(patterns, line)
    /\ UNCHANGED <<heap, hdcache, pyphens, ret, first, ncalls, threads>>

NextParse == \E line \in ParserLines : ReadLine(line)

SpecParse == InitParse /\ [][NextParse]_vars

(***************************************************************************)
(* The sequential client: Pyphen objects are built and queried.            *)
(***************************************************************************)
Init ==
    /\ file \in Dictionaries
    /\ patterns = NoPatterns
    /\ pattern = <<>>
    /\ lineno = 0
    /\ heap = <<>>
    /\ hdcache = 0
    /\ pyphens = <<>>
    /\ ret = NoCall
    /\ first = NoFirst
    /\ ncalls = 0
    /\ threads = Idle

\* Pyphen(filename=..., left=left, right=right, cache=cache)
Construct(left, right, cache, maxPyphen) ==
    /\ Len(pyphens) < maxPyphen
    /\ IF ~cache \/ hdcache = 0
       THEN LET built == HyphDict(file)
            IN  IF built.raised
                THEN /\ ret' = [NoCall EXCEPT !.op = "Pyphen", !.returned = "ValueError"]
                     /\ UNCHANGED <<heap, hdcache, pyphens>>
                ELSE /\ heap' = Append(heap, [patterns |-> built.patterns,
                                              maxlen |-> built.maxlen,
                                              cache |-> built.cache])
                     /\ hdcache' = Len(heap) + 1
                     /\ pyphens' = Append(pyphens, [left |-> left, right |-> right,
                                                    hd |-> Len(heap) + 1])
                     /\ ret' = [NoCall EXCEPT !.op = "Pyphen", !.self = Len(pyphens) + 1]
       ELSE /\ pyphens' = Append(pyphens, [left |-> left, right |-> right, hd |-> hdcache])
            /\ ret' = [NoCall EXCEPT !.op = "Pyphen", !.self = Len(pyphens) + 1]
            /\ UNCHANGED <<heap, hdcache>>
    /\ UNCHANGED <<file, patterns, pattern, lineno, first, ncalls, threads>>

\* what every query does first: self.positions(word), which asks self.hd
Called(p, word) == HyphDict_positions(heap[pyphens[p].hd], word)

\* what the query op returns, given what self.hd.positions(word) returned
Result(op, self, points, word, width, hyphen) ==
    CASE op = "positions" -> Pyphen_positions(self, points, word)
      [] op = "iterate"   -> iterate(self, points, word)
      [] op = "wrap"      -> wrap(self, points, word, width, hyphen)
      [] op = "inserted"  -> inserted(self, points, word, hyphen)

\* a query of Pyphen object p
Query(op, p, word, width, hyphen, maxCalls) ==
    /\ ncalls < maxCalls
    /\ LET called == Called(p, word)
           positions == Pyphen_positions(pyphens[p], called.points, word)
       IN  /\ heap' = [heap EXCEPT ![pyphens[p].hd] = called.hd]
           /\ ret' = [op |-> op, self |-> p, word |-> word, width |-> width,
                      hyphen |-> hyphen, points |-> called.points,
                      positions |-> positions,
                      returned |-> Result(op, pyphens[p], called.points, word, width, hyphen)]
           /\ first' = IF <<p, word>> \in DOMAIN first THEN first
                       ELSE Store(first, <<p, word>>, positions)
    /\ ncalls' = ncalls + 1
    /\ UNCHANGED <<file, patterns, pattern, lineno, hdcache, pyphens, threads>>

Positions(p, word, maxCalls) == Query("positions", p, word, 0, <<>>, maxCalls)

Iterate(p, word, maxCalls) == Query("iterate", p, word, 0, <<>>, maxCalls)

Wrap(p, word, width, hyphen, maxCalls) == Query("wrap", p, word, width, hyphen, maxCalls)

Inserted(p, word, hyphen, maxCalls) == Query("inserted", p, word, 0, hyphen, maxCalls)

Next ==
    \/ \E left \in Margins, right \in Margins, cache \in BOOLEAN :
           Construct(left, right, cache, MaxPyphen)
    \/ \E p \in 1..Len(pyphens), word \in Words : Positions(p, word, MaxCalls)
    \/ \E p \in 1..Len(pyphens), word \in Words : Iterate(p, word, MaxCalls)
    \/ \E p \in 1..Len(pyphens), word \in Words, width \in Widths, hyphen \in Hyphens :
           Wrap(p, word, width, hyphen, MaxCalls)
    \/ \E p \in 1..Len(pyphens), word \in Words, hyphen \in Hyphens :
           Inserted(p, word, hyphen, MaxCalls)

Spec == Init /\ [][Next]_vars

(***************************************************************************)
(* The client that repeats its calls: several Pyphen objects, with their   *)
(* own margins, built with or without the table cache, and positions       *)
(* calls of words that differ in their case only.                          *)
(***************************************************************************)
CacheWords == {<<"a", "b">>, <<"A", "b">>, <<"A", "B">>, <<"a", "a">>}

CacheMargins == 0..MaxCacheMargin

NextCache ==
    \/ \E left \in CacheMargins, right \in CacheMargins, cache \in BOOLEAN :
           Construct(left, right, cache, MaxCachePyphen)
    \/ \E p \in 1..Len(pyphens), word \in CacheWords : Positions(p, word, MaxCacheCalls)

SpecCache == Init /\ [][NextCache]_vars

(***************************************************************************)
(* The concurrent client: threads that build Pyphen objects for the same   *)
(* file and call positions, one bytecode-level access of a shared dict at  *)
(* a time.  What a thread computes between two accesses is its own.        *)
(***************************************************************************)
ThreadWords == {<<"a", "b">>, <<"A", "B">>}

\* the margins (left, right) the threads build their objects with
ThreadMargins == {<<0, 0>>, <<1, 1>>}

ThreadIdle == [pc |-> "idle", left |-> 0, right |-> 0, self |-> 0, hd |-> 0,
               word |-> <<>>, points |-> <<>>, returned |-> <<>>]

InitThreads ==
    /\ file \in Dictionaries
    /\ patterns = NoPatterns
    /\ pattern = <<>>
    /\ lineno = 0
    /\ heap = <<>>
    /\ hdcache = 0
    /\ pyphens = <<>>
    /\ ret = NoCall
    /\ first = NoFirst
    /\ ncalls = 0
    /\ threads = [t \in 1..MaxThreads |-> ThreadIdle]

Free(t) == threads[t].pc \in {"idle", "done", "raised"}

\* Pyphen(filename, left, right): `filename not in hdcache`
CheckTable(t, left, right) ==
    /\ Free(t)
    /\ ncalls < MaxThreadOps
    /\ ncalls' = ncalls + 1
    /\ threads' = [threads EXCEPT ![t] =
                      [ThreadIdle EXCEPT !.left = left, !.right = right,
                                         !.pc = IF hdcache = 0 THEN "build" ELSE "read"]]
    /\ UNCHANGED <<file, patterns, pattern, lineno, heap, hdcache, pyphens, ret, first>>

\* hdcache[filename] = HyphDict(filename): the table is built by the thread
\* and becomes visible with the store
StoreTable(t) ==
    /\ threads[t].pc = "build"
    /\ LET built == HyphDict(file)
       IN  IF built.raised
           THEN /\ threads' = [threads EXCEPT ![t].pc = "raised"]
                /\ UNCHANGED <<heap, hdcache>>
           ELSE /\ heap' = Append(heap, [patterns |-> built.patterns,
                                         maxlen |-> built.maxlen,
                                         cache |-> built.cache])
                /\ hdcache' = Len(heap) + 1
                /\ threads' = [threads EXCEPT ![t].pc = "read"]
    /\ UNCHANGED <<file, patterns, pattern, lineno, pyphens, ret, first, ncalls>>

\* self.hd = hdcache[filename], and the constructor returns
ReadTable(t) ==
    /\ threads[t].pc = "read"
    /\ pyphens' = Append(pyphens, [left |-> threads[t].left, right |-> threads[t].right,
                                   hd |-> hdcache])
    /\ threads' = [threads EXCEPT ![t].pc = "idle", ![t].self = Len(pyphens) + 1,
                                  ![t].hd = hdcache]
    /\ UNCHANGED <<file, patterns, pattern, lineno, heap, hdcache, ret, first, ncalls>>

\* positions(word) of Pyphen object p: word.lower() and self.cache.get(word);
\* on a hit the call returns, on a miss the thread computes the points
GetPoints(t, p, word) ==
    /\ Free(t)
    /\ ncalls < MaxThreadOps
    /\ ncalls' = ncalls + 1
    /\ LET hd == heap[pyphens[p].hd]
           w == CacheKey(word)
           call == [ThreadIdle EXCEPT !.self = p, !.hd = pyphens[p].hd, !.word = word,
                                      !.left = pyphens[p].left, !.right = pyphens[p].right]
       IN  threads' = [threads EXCEPT ![t] =
               IF w \in DOMAIN hd.cache
               THEN [call EXCEPT !.pc = "done", !.points = hd.cache[w],
                                 !.returned = Pyphen_positions(pyphens[p], hd.cache[w], word)]
               ELSE [call EXCEPT !.pc = "store", !.points = Compute(hd, w)]]
    /\ UNCHANGED <<file, patterns, pattern, lineno, heap, hdcache, pyphens, ret, first>>

\* self.cache[word] = points, and the call returns
StorePoints(t) ==
    /\ threads[t].pc = "store"
    /\ heap' = [heap EXCEPT ![threads[t].hd].cache =
                   cache_setitem(@, CacheKey(threads[t].word), threads[t].points)]
    /\ threads' = [threads EXCEPT ![t].pc = "done",
                                  ![t].returned = Pyphen_positions(pyphens[threads[t].self],
                                                                   threads[t].points,
                                                                   threads[t].word)]
    /\ UNCHANGED <<file, patterns, pattern, lineno, hdcache, pyphens, ret, first, ncalls>>

NextThreads ==
    \E t \in 1..MaxThreads :
        \/ \E margins \in ThreadMargins : CheckTable(t, margins[1], margins[2])
        \/ StoreTable(t)
        \/ ReadTable(t)
        \/ \E p \in 1..Len(pyphens), word \in ThreadWords : GetPoints(t, p, word)
        \/ StorePoints(t)

SpecThreads == InitThreads /\ [][NextThreads]_vars

(***************************************************************************)
(* C10: the entries the parser stores.                                     *)
(***************************************************************************)
\* the letters of a pattern text, its digits dropped
Letters(text) == SelectSeq(text, LAMBDA c : c \notin Digits)

\* where letter g (from 0) of the key stands in the text; past the end for
\* g = the number of letters
LetterAt(text, g) ==
    IF g >= Len(Letters(text)) THEN Len(text) + 1
    ELSE CHOOSE k \in 1..Len(text) :
             /\ text[k] \notin Digits
             /\ Cardinality({j \in 1..(k - 1) : text[j] \notin Digits}) = g

\* the weight the text writes in the gap in front of key letter g: the digit
\* that stands directly before that letter (or at the very end), else 0
GapWeight(text, g) ==
    LET k == LetterAt(text, g)
    IN  IF k > 1 /\ text[k - 1] \in Digits THEN DigitVal(text[k - 1]) ELSE 0

NoAdjacentDigits(text) ==
    \A k \in 1..(Len(text) - 1) : ~(text[k] \in Digits /\ text[k + 1] \in Digits)

\* what C10 says of the table before (before) and after (after) a pattern line
EntryInvariant(line, before, after) ==
    LET text == PatternText(line)
        key == Letters(text)
        gaps == 0..Len(key)
    IN  IF \A g \in gaps : GapWeight(text, g) = 0
        THEN after = before
        ELSE /\ key \in DOMAIN after
             /\ LET start_offset == after[key][1]
                    weights == after[key][2]
                IN  /\ Len(weights) > 0
                    /\ weights[1].n # 0
                    /\ weights[Len(weights)].n # 0
                    /\ start_offset =
                         Cardinality({g \in gaps : \A h \in 0..g : GapWeight(text, h) = 0})
                    /\ start_offset + Len(weights) <= Len(key) + 1
                    /\ \A k \in 0..(Len(weights) - 1) :
                           weights[k + 1].n = GapWeight(text, start_offset + k)
             /\ DOMAIN after = DOMAIN before \cup {key}
             /\ \A other \in DOMAIN before \ {key} : after[other] = before[other]
             /\ after[key] = ReadPattern(NoPatterns, line)[key]

\* C10 as stated: every line that is not skipped, whatever its text, leaves
\* either the table as it was (all weights zero) or, under its letters-only
\* key, an entry (start_offset, weights) with non-empty weights whose first and
\* last are non-zero, start_offset the number of leading zeros removed,
\* start_offset + len(weights) <= len(key) + 1 and weights[k] the weight of
\* the gap in front of key letter start_offset + k, replacing any earlier
\* entry of that key.
C10_EveryLine ==
    [][~IsSkipped(pattern') => EntryInvariant(pattern', patterns, patterns')]_vars

\* C10 as amended: the same for every pattern line in which no two digits are
\* adjacent (letters interleaved with single digits, as the format has them).
C10_PatternEntry ==
    [][(~IsSkipped(pattern') /\ NoAdjacentDigits(PatternText(pattern')))
          => EntryInvariant(pattern', patterns, patterns')]_vars

\* a second line replaced the entry of the first line's key, with zeros
\* chopped at both ends
C10_Witness ==
    /\ lineno = 2
    /\ ~IsSkipped(pattern)
    /\ NoAdjacentDigits(PatternText(pattern))
    /\ ~IsSkipped(file[1])
    /\ Key(pattern) \in DOMAIN ReadPattern(NoPatterns, file[1])
    /\ Key(pattern) \in DOMAIN patterns
    /\ patterns[Key(pattern)] # ReadPattern(NoPatterns, file[1])[Key(pattern)]
    /\ patterns[Key(pattern)][1] > 0
    /\ patterns[Key(pattern)][1] + Len(patterns[Key(pattern)][2]) < Len(Key(pattern)) + 1

(***************************************************************************)
(* The claims about the queries, on the state after a query returned.      *)
(***************************************************************************)
IsQuery == ret.op \in {"positions", "iterate", "wrap", "inserted"}

Self == pyphens[ret.self]

Plain(positions) == \A k \in 1..Len(positions) : positions[k].data = None

\* C1: every position Pyphen.positions(word) returns lies between left and
\* len(word) - right, so -1 and len(word) + 1 are never returned.
C1_MarginInvariant ==
    ret.op = "positions" =>
        \A k \in 1..Len(ret.returned) :
            /\ Self.left <= ret.returned[k].n
            /\ ret.returned[k].n <= Len(ret.word) - Self.right
            /\ ret.returned[k].n \notin {0 - 1, Len(ret.word) + 1}

\* the finder emitted -1 or len(word) + 1, and positions returned something
C1_Witness ==
    /\ ret.op = "positions"
    /\ ret.returned # <<>>
    /\ \E k \in 1..Len(ret.points) : ret.points[k].n = 0 - 1
    /\ \E k \in 1..Len(ret.points) : ret.points[k].n = Len(ret.word) + 1

\* C2: every pair iterate(word) yields leaves at least left characters in the
\* head and at least right characters in the tail.
C2_MinimumSyllable ==
    ret.op = "iterate" =>
        \A k \in 1..Len(ret.returned) :
            /\ Len(ret.returned[k][1]) >= Self.left
            /\ Len(ret.returned[k][2]) >= Self.right

\* C3: iterate(word) yields one pair for each position of positions(word), and
\* each head is strictly shorter than the head yielded before it.
C3_LongestFirst ==
    ret.op = "iterate" =>
        /\ Len(ret.returned) = Len(ret.positions)
        /\ \A k \in 1..(Len(ret.returned) - 1) :
               Len(ret.returned[k + 1][1]) < Len(ret.returned[k][1])

\* the word with the hyphen put in front of each character whose index is a
\* position (and at the end, for the position len(word)), from index c on
RECURSIVE HyphenatedFrom(_, _, _, _)
HyphenatedFrom(word, at, hyphen, c) ==
    (IF c \in at THEN hyphen ELSE <<>>)
    \o (IF c < Len(word) THEN <<word[c + 1]>> \o HyphenatedFrom(word, at, hyphen, c + 1)
        ELSE <<>>)

PositionSet(positions) == {positions[k].n : k \in 1..Len(positions)}

\* the first half of C4: "-" stands at each original index of a position
InsertedAtEach ==
    /\ ret.returned = HyphenatedFrom(ret.word, PositionSet(ret.positions), <<"-">>, 0)
    /\ Len(ret.returned) = Len(ret.word) + Len(ret.positions)

\* C4 as stated: when no position of the word carries a change,
\* inserted(word, "-") is the word with "-" at each position, n characters
\* longer, and the pieces of its split on "-" concatenate to the word.
C4_RoundTripAnyWord ==
    (ret.op = "inserted" /\ ret.hyphen = <<"-">> /\ Plain(ret.positions)) =>
        /\ InsertedAtEach
        /\ join(split(ret.returned, "-")) = ret.word

\* C4 as amended: the same, the pieces concatenating to the word when the
\* word itself holds no "-".
C4_RoundTrip ==
    (ret.op = "inserted" /\ ret.hyphen = <<"-">> /\ Plain(ret.positions)) =>
        /\ InsertedAtEach
        /\ ~Contains(ret.word, "-") => join(split(ret.returned, "-")) = ret.word

\* inserted put two hyphens in a word with an uppercase letter and no "-"
C4_Witness ==
    /\ ret.op = "inserted"
    /\ ret.hyphen = <<"-">>
    /\ Plain(ret.positions)
    /\ Len(ret.positions) >= 2
    /\ ~Contains(ret.word, "-")
    /\ lower(ret.word) # ret.word

\* C5: wrap returns (head + hyphen, tail) for the longest head among the
\* pairs of iterate(word) with len(head) <= width - len(hyphen), its first
\* part never longer than width, and returns nothing exactly when no pair
\* satisfies the bound.
C5_WrapLongest ==
    ret.op = "wrap" =>
        LET pairs == iterate(Self, ret.points, ret.word)
            fits == {k \in 1..Len(pairs) : Len(pairs[k][1]) <= ret.width - Len(ret.hyphen)}
        IN  IF fits = {} THEN ret.returned = None
            ELSE /\ ret.returned # None
                 /\ Len(ret.returned[1]) <= ret.width
                 /\ \E k \in fits :
                        /\ ret.returned = <<pairs[k][1] \o ret.hyphen, pairs[k][2]>>
                        /\ \A j \in fits : Len(pairs[j][1]) <= Len(pairs[k][1])

\* word_list of inserted after the first k positions (from the right) are done
RECURSIVE EditFirst(_, _, _, _)
EditFirst(word, rev, k, hyphen) ==
    IF k = 0 THEN list(word)
    ELSE Edit(word, EditFirst(word, rev, k - 1, hyphen), rev[k], hyphen)

\* C8: in inserted, after each edit every position not yet processed still has
\* the characters of the original word in front of it: the edit touched only
\* characters at or after it.
C8_IndexStability ==
    ret.op = "inserted" =>
        LET rev == reversed(ret.positions)
        IN  \A k \in 1..Len(rev) : \A j \in (k + 1)..Len(rev) :
                SubSeq(EditFirst(ret.word, rev, k, ret.hyphen), 1, rev[j].n)
                    = SubSeq(list(ret.word), 1, rev[j].n)

(***************************************************************************)
(* C7: the overlay of HyphDict.positions.                                  *)
(***************************************************************************)
\* the table the last query asked
Table == heap[Self.hd]

\* the substrings pointed_word[i:j], j > i, of length <= maxlen that are keys
\* of the table, for the start indices starts
Matches(hd, pointed_word, starts) ==
    {mt \in starts \X (1..Len(pointed_word)) :
        /\ mt[1] < mt[2]
        /\ mt[2] - mt[1] <= hd.maxlen
        /\ SubSeq(pointed_word, mt[1] + 1, mt[2]) \in DOMAIN hd.patterns}

\* whether the match mt places a weight on index m of the accumulator
Covers(hd, pointed_word, mt, m) ==
    LET entry == hd.patterns[SubSeq(pointed_word, mt[1] + 1, mt[2])]
    IN  mt[1] + entry[1] <= m /\ m < mt[1] + entry[1] + Len(entry[2])

\* the weight it places there
WeightOn(hd, pointed_word, mt, m) ==
    LET entry == hd.patterns[SubSeq(pointed_word, mt[1] + 1, mt[2])]
    IN  entry[2][m - (mt[1] + entry[1]) + 1]

\* the maximum of 0 and the weights the matches place on index m
Strongest(hd, pointed_word, matches, m) ==
    MaxOf({0} \cup {WeightOn(hd, pointed_word, mt, m).n :
                       mt \in {c \in matches : Covers(hd, pointed_word, c, m)}})

\* mt is looked up no later than other by the two loops
ScannedBefore(mt, other) == mt[1] < other[1] \/ (mt[1] = other[1] /\ mt[2] <= other[2])

\* the weight that survives on index m: of the matches that place the
\* strongest weight there, the one the loops look up last
Surviving(hd, pointed_word, matches, m) ==
    LET top == {mt \in matches :
                   /\ Covers(hd, pointed_word, mt, m)
                   /\ WeightOn(hd, pointed_word, mt, m).n
                          = Strongest(hd, pointed_word, matches, m)}
        last == CHOOSE mt \in top : \A other \in top : ScannedBefore(other, mt)
    IN  WeightOn(hd, pointed_word, last, m)

\* the matches in the reverse of the order the loops look them up
RECURSIVE LastFirst(_)
LastFirst(matches) ==
    IF matches = {} THEN <<>>
    ELSE LET last == CHOOSE mt \in matches : \A other \in matches : ScannedBefore(other, mt)
         IN  <<last>> \o LastFirst(matches \ {last})

\* the accumulator after the matches of order are applied one after the other
RECURSIVE AppliedIn(_, _, _, _)
AppliedIn(hd, pointed_word, references, order) ==
    IF order = <<>> THEN references
    ELSE AppliedIn(hd, pointed_word,
                   Lookup(hd, pointed_word, references, Head(order)[1], Head(order)[2]),
                   Tail(order))

\* what C7 says of a query, the matches being those that start at starts
MaxCombination(pointed_word, starts) ==
    LET hd == Table
        matches == Matches(hd, pointed_word, starts)
        references == References(hd, lower(ret.word))
        backwards == AppliedIn(hd, pointed_word,
                               [m \in 1..(Len(pointed_word) + 1) |-> DataInt(0, None)],
                               LastFirst(matches))
        odd == {m \in 0..Len(pointed_word) :
                   Strongest(hd, pointed_word, matches, m) % 2 = 1}
    IN  /\ \A m \in 0..Len(pointed_word) :
               /\ references[m + 1].n = Strongest(hd, pointed_word, matches, m)
               /\ backwards[m + 1].n = Strongest(hd, pointed_word, matches, m)
        /\ {ret.points[k].n + 1 : k \in 1..Len(ret.points)} = odd
        /\ Len(ret.points) = Cardinality(odd)
        /\ \A k \in 1..(Len(ret.points) - 1) : ret.points[k].n < ret.points[k + 1].n
        /\ \A k \in 1..Len(ret.points) :
               ret.points[k].data
                   = Surviving(hd, pointed_word, matches, ret.points[k].n + 1).data

\* C7 as stated: the accumulator holds at each index the maximum of 0 and the
\* weights of all matching patterns, the substrings of "." + lowercased word +
\* "." of length <= maxlen found in the table, whatever the order they are
\* applied in; the points returned are the indices m - 1 of odd value,
\* ascending, each with the data of the surviving weight.
C7_AllSubstrings ==
    IsQuery =>
        LET pointed_word == PointedWord(lower(ret.word))
        IN  MaxCombination(pointed_word, 0..(Len(pointed_word) - 1))

\* C7 as amended: the same, the matching patterns being the substrings that
\* start before the closing dot.
C7_MaxCombination ==
    IsQuery =>
        LET pointed_word == PointedWord(lower(ret.word))
        IN  MaxCombination(pointed_word, 0..(Len(pointed_word) - 2))

\* two matches put different weights on one index, and a match put an odd
\* weight with a change on an index that became a position
C7_Witness ==
    /\ IsQuery
    /\ LET pointed_word == PointedWord(lower(ret.word))
           matches == Matches(Table, pointed_word, 0..(Len(pointed_word) - 2))
       IN  /\ \E m \in 0..Len(pointed_word) : \E a \in matches, b \in matches :
                  /\ Covers(Table, pointed_word, a, m)
                  /\ Covers(Table, pointed_word, b, m)
                  /\ WeightOn(Table, pointed_word, a, m).n
                         < WeightOn(Table, pointed_word, b, m).n
           /\ ret.points # <<>>

(***************************************************************************)
(* C6 and C9: the caches.                                                  *)
(***************************************************************************)
\* every entry of every word cache is under a lowercased word and is the
\* list computed from scratch for that word
CacheEntriesRight ==
    \A h \in 1..Len(heap) : \A w \in DOMAIN heap[h].cache :
        /\ w = lower(w)
        /\ heap[h].cache[w] = Points(References(heap[h], w), 1)

\* a step changes or removes no entry of a word cache
CacheEntriesKept ==
    \A h \in 1..Len(heap) : \A w \in DOMAIN heap[h].cache :
        /\ w \in DOMAIN heap'[h].cache
        /\ heap'[h].cache[w] = heap[h].cache[w]

\* a positions call returned what the first call of the same word on the
\* same object returned
RepeatedAsFirst ==
    ret.op = "positions" => ret.returned = first[<<ret.self, ret.word>>]

\* C6: after any sequence of positions queries, in any letter case, through
\* Pyphen objects with any margins, every entry of the word cache is under a
\* lowercased word and equals the list computed from scratch for it, no entry
\* is changed or removed by a later query, and a repeated positions(word) on
\* the same object returns what the first call returned.
C6_CacheTransparency ==
    /\ [](CacheEntriesRight /\ RepeatedAsFirst)
    /\ [][CacheEntriesKept]_vars

\* the third call repeated an earlier one, of a word with an uppercase letter,
\* on an object whose table a second object with other margins shares; two
\* spellings were asked, one entry is cached, and the margins dropped a point
C6_Witness ==
    /\ ncalls = 3
    /\ ret.op = "positions"
    /\ ret.word # lower(ret.word)
    /\ Len(pyphens) = 2
    /\ pyphens[1].hd = pyphens[2].hd
    /\ <<pyphens[1].left, pyphens[1].right>> # <<pyphens[2].left, pyphens[2].right>>
    /\ Cardinality(DOMAIN first) = 2
    /\ Cardinality(DOMAIN heap[Self.hd].cache) = 1
    /\ ret.returned # <<>>
    /\ ret.returned # ret.points

\* the table heap[h] is the table built from the file
TableRight(built, h) ==
    /\ ~built.raised
    /\ heap[h].patterns = built.patterns
    /\ heap[h].maxlen = built.maxlen

\* what a serial execution returns for positions(word) of a Pyphen object
Serial(built, self, word) ==
    Pyphen_positions(self, Points(References(built, lower(word)), 1), word)

\* C9: under any interleaving of positions calls on a shared table and of
\* constructions for the same file, every call returns what a serial
\* execution returns, and every value ever in a word cache or in the table
\* cache is a correct one.
C9_RaceTolerance ==
    LET built == HyphDict(file)
    IN  /\ CacheEntriesRight
        /\ hdcache # 0 => TableRight(built, hdcache)
        /\ \A p \in 1..Len(pyphens) : TableRight(built, pyphens[p].hd)
        /\ \A t \in 1..MaxThreads :
               threads[t].pc = "done" =>
                   threads[t].returned
                       = Serial(built, pyphens[threads[t].self], threads[t].word)

\* both races happened: two constructions built a table each, and a thread
\* returned from a call while the other, which missed the same entry of the
\* same table, is about to store it again
C9_Witness ==
    /\ Len(heap) = 2
    /\ \E t \in 1..MaxThreads, u \in 1..MaxThreads :
           /\ threads[t].pc = "done"
           /\ threads[u].pc = "store"
           /\ threads[t].hd = threads[u].hd
           /\ threads[t].word # threads[u].word
           /\ CacheKey(threads[t].word) = CacheKey(threads[u].word)
           /\ CacheKey(threads[u].word) \in DOMAIN heap[threads[u].hd].cache
           /\ threads[t].returned # <<>>

====
